---- MODULE Spec2Model ----
(***************************************************************************)
(* pySim transport link: LinkBase (pySim/transport/__init__.py) and the    *)
(* PC/SC link built on it (pySim/transport/pcsc.py).                       *)
(*                                                                         *)
(* One logical command is in progress at a time (the code is synchronous   *)
(* and single-threaded).  A hex string is a sequence of one-character      *)
(* strings, so that letter case is visible: "9f05" is <<"9","f","0","5">>. *)
(***************************************************************************)
EXTENDS Integers, Sequences, FiniteSets, TLC

\* Largest retry_attempts a caller passes to send_apdu_failsafe / send_apdu.
MaxRetry == 2

\* The raw channel fails on its first k calls, 0 <= k <= MaxFail, and then
\* succeeds; k = MaxFail exceeds every retry budget (the channel never
\* succeeds within the call).
MaxFail == MaxRetry + 1

----------------------------------------------------------------------------
(* Hex strings *)

LowerOf ==
  [c \in {"A", "B", "C", "D", "E", "F"} |->
     CASE c = "A" -> "a" [] c = "B" -> "b" [] c = "C" -> "c"
       [] c = "D" -> "d" [] c = "E" -> "e" [] OTHER -> "f"]

\* str.lower() on one character
LowerChar(c) == IF c \in DOMAIN LowerOf THEN LowerOf[c] ELSE c

\* str.lower()
lower(s) == [i \in 1..Len(s) |-> LowerChar(s[i])]

\* Python slice s[a:b] (0-based, end exclusive, clipped to the string)
Slice(s, a, b) ==
  LET hi == IF b < Len(s) THEN b ELSE Len(s)
  IN  IF a >= hi THEN <<>> ELSE [i \in 1..(hi - a) |-> s[a + i]]

HexDigits ==
  <<"0", "1", "2", "3", "4", "5", "6", "7", "8", "9", "a", "b", "c", "d", "e", "f">>

HexValOf ==
  [c \in {HexDigits[i] : i \in 1..16} |-> (CHOOSE i \in 1..16 : HexDigits[i] = c) - 1]

\* int(c, 16): the value of one hex digit, either letter case
HexVal(c) == HexValOf[LowerChar(c)]

\* h2i: hex string -> list of byte values
h2i(s) == [i \in 1..(Len(s) \div 2) |-> 16 * HexVal(s[2 * i - 1]) + HexVal(s[2 * i])]

\* i2h: list of byte values -> hex string, lower-case digits
i2h(bs) ==
  [i \in 1..(2 * Len(bs)) |->
     IF i % 2 = 1 THEN HexDigits[(bs[(i + 1) \div 2] \div 16) + 1]
                  ELSE HexDigits[(bs[i \div 2] % 16) + 1]]

----------------------------------------------------------------------------
(* Inputs *)

\* "A0A40000023F00" (the docstrings' example) and a lower-case USIM SELECT
Pdus ==
  { <<"A", "0", "A", "4", "0", "0", "0", "0", "0", "2", "3", "F", "0", "0">>,
    <<"0", "0", "a", "4", "0", "0", "0", "4", "0", "2", "3", "f", "0", "0">> }

\* response data: empty, or the docstrings' example "074F4EFFFF"
Datas == { <<>>, <<"0", "7", "4", "F", "4", "E", "F", "F", "F", "F">> }

\* status words a raw channel returns, in either letter case
StatusWords ==
  { <<"9", "0", "0", "0">>, <<"9", "f", "0", "5">>, <<"9", "F", "0", "5">>,
    <<"6", "1", "1", "2">>, <<"6", "a", "8", "2">>, <<"6", "A", "8", "2">>,
    <<"9", "0", "0", "1">>, <<"9", "1", "0", "0">> }

\* expected-status patterns given to send_apdu_checksw ('?' masks a digit)
Patterns ==
  { <<"9", "0", "0", "0">>, <<"9", "0", "?", "?">>, <<"9", "?", "0", "0">>,
    <<"6", "A", "8", "2">>, <<"6", "1", "?", "?">> }

\* exceptions a raw channel raises (all derive from Exception)
ChannelErrors == {"ProtocolError", "NoCardError", "ReaderError"}

----------------------------------------------------------------------------
(* State *)

VARIABLES
  rawImpl,         \* "overridden": the link class implements send_apdu_raw;
                   \* "inherited": the link is a PcscSimLink, which runs
                   \* LinkBase.send_apdu_raw
  pc,              \* where the call in progress stands
  op,              \* the public method the caller invoked
  pdu,             \* its pdu argument
  retry_attempts,  \* retry_attempts of send_apdu / of the outermost failsafe
  expect,          \* the sw argument of send_apdu_checksw
  k0,              \* failures the channel had in store when the call began
  failsLeft,       \* failures the channel still produces before it succeeds
  curPdu,          \* pdu of the send_apdu_failsafe invocation in progress
  budget,          \* its retry_attempts
  log,             \* the raw transmissions of this call, in order: the pdu
                   \* sent, the retry_attempts of the invocation that sent
                   \* it, and the pair returned or the exception raised
  resps,           \* the (data, sw) pairs send_apdu_failsafe returned so far
  rv,              \* the pair send_apdu returned (send_apdu_checksw's rv)
  result,          \* how the call ended
  handles,         \* card handles the reader connection self._con holds
  conCalls,        \* the calls this call made on self._con, in order, each
                   \* with the pyscard exception it raised ("" for none)
  waited,          \* how cr.waitforcard() ended in wait_for_card
  prev             \* the preceding call on a PcscSimLink and how it ended

\* the PC/SC side of the link
conVars == <<handles, conCalls, waited, prev>>

vars ==
  <<rawImpl, pc, op, pdu, retry_attempts, expect, k0, failsLeft, curPdu,
    budget, log, resps, rv, result, handles, conCalls, waited, prev>>

NoResult ==
  [tag |-> "none", data |-> <<>>, sw |-> <<>>, exc |-> "", id |-> 0, args |-> <<>>]

\* one raw transmission: resp is the (data, sw) pair send_apdu_raw returned
\* (ok), or exc the class of the exception it raised
Sent(p, left, resp, exc) ==
  [pdu |-> p, left |-> left, ok |-> (exc = ""), resp |-> resp, exc |-> exc]

\* return data, sw
Returned(pair) ==
  [tag |-> "return", data |-> pair[1], sw |-> pair[2], exc |-> "", id |-> 0,
   args |-> <<>>]

\* return of a method that returns no pair: v is <<>> for None
ReturnedValue(v) ==
  [tag |-> "return", data |-> <<>>, sw |-> <<>>, exc |-> "", id |-> 0, args |-> v]

\* an exception object: its class, the raw transmission that raised it (0 when
\* the link's own code created it) and its constructor arguments
Exc(kind, id, args) == [kind |-> kind, id |-> id, args |-> args]

\* the exception leaves the public method
Raised(e) ==
  [tag |-> "raise", data |-> <<>>, sw |-> <<>>, exc |-> e.kind, id |-> e.id,
   args |-> e.args]

----------------------------------------------------------------------------
(* pySim.utils.sw_match: per digit, '?' masks, letter case ignored *)

sw_match(sw, pattern) ==
  /\ Len(sw) = Len(pattern)
  /\ \A i \in 1..Len(pattern) :
       \/ pattern[i] = "?"
       \/ LowerChar(pattern[i]) = LowerChar(sw[i])

----------------------------------------------------------------------------
(* LinkBase *)

\* send_apdu_failsafe's default retry_attempts
send_apdu_failsafe_default_retry == 5

\* send_apdu's default retry_attempts, the budget send_apdu_checksw runs with
send_apdu_default_retry == 0

\* (variant) NoCardError and ReaderError are re-raised at once
RetryAllowed_NotAbsence(kind, attempts) ==
  attempts > 0 /\ kind \notin {"NoCardError", "ReaderError"}

\* (variant) the budget test lets one attempt too many through
RetryAllowed_OffByOne(kind, attempts) == attempts >= 0

\* send_apdu_failsafe, line 75: retry while the budget lasts, whatever e1 is
RetryAllowed(kind, attempts) == attempts > 0

\* (variant) a retry sends the command send_apdu was called with
RetryPdu_Original(p, original) == original

\* send_apdu_failsafe, line 77: the retry passes on its own pdu
RetryPdu(p, original) == p

\* (variant) the handler wraps the failure the way PcscSimLink.connect does
Reraise_AsProtocolError(e) == Exc("ProtocolError", 0, <<>>)

\* send_apdu_failsafe, line 78: a bare raise re-raises the caught exception
Reraise(e) == e

\* (variant) send_apdu tests every pair it gets: a loop where the code has an if
ReturnSite_Loop(n) == "send_apdu"

\* where send_apdu continues when send_apdu_failsafe returns its n-th pair:
\* the call of line 88 returns to the test of line 95, the call of line 97
\* to the return of line 98
ReturnSite(n) == IF n = 1 THEN "send_apdu" ELSE "return"

\* (variant) only the presence of a status word is tested
NeedsGetResponse_Always(sw) == sw # <<>>

\* (variant) the slice takes one digit of SW1 instead of two
NeedsGetResponse_FirstDigit(sw) ==
  LET d1 == Slice(sw, 0, 1)
  IN  (d1 = <<"9">>) \/ (d1 = <<"6">>)

\* send_apdu, line 95
NeedsGetResponse(sw) ==
  LET sw1 == Slice(sw, 0, 2)
  IN  (sw1 = <<"9", "f">>) \/ (sw1 = <<"6", "1">>)

\* (variant) the length byte is taken from SW1 instead of SW2
GetResponsePdu_Sw1(p, sw) == Slice(p, 0, 2) \o <<"c", "0", "0", "0", "0", "0">> \o Slice(sw, 0, 2)

\* send_apdu, line 96
GetResponsePdu(p, sw) == Slice(p, 0, 2) \o <<"c", "0", "0", "0", "0", "0">> \o Slice(sw, 2, 4)

\* (variant) the continuation gets what the first send left of the budget
GetResponseRetry_Remaining(attempts, left) == left

\* send_apdu, line 97: the continuation gets send_apdu's own retry_attempts
GetResponseRetry(attempts, left) == attempts

\* (variant) the pattern is passed on as the caller wrote it
SwMatchError_NoLower(sw_observed, sw_pattern) ==
  Exc("SwMatchError", 0, <<sw_observed, sw_pattern>>)

\* send_apdu_checksw, line 114
SwMatchError(sw_observed, sw_pattern) ==
  Exc("SwMatchError", 0, <<sw_observed, lower(sw_pattern)>>)

\* (variant) the arguments of sw_match are swapped
CheckswPasses_Swapped(pair, pattern) == sw_match(pattern, pair[2])

\* send_apdu_checksw, line 113
CheckswPasses(pair, pattern) == sw_match(pair[2], pattern)

Init ==
  /\ rawImpl \in {"overridden", "inherited"}
  /\ pc = "idle"
  /\ op = "none"
  /\ pdu = <<>>
  /\ retry_attempts = 0
  /\ expect = <<>>
  /\ k0 = 0
  /\ failsLeft = 0
  /\ curPdu = <<>>
  /\ budget = 0
  /\ log = <<>>
  /\ resps = <<>>
  /\ rv = <<>>
  /\ result = NoResult
  /\ handles = 0
  /\ conCalls = <<>>
  /\ waited = "none"
  /\ prev = [op |-> "none", tag |-> "none"]

\* The caller invokes a public method on an idle link.  The channel's next k
\* calls fail; an inherited send_apdu_raw never succeeds.
Begin(o, p, n, e) ==
  /\ pc = "idle"
  /\ pc' = "failsafe"
  /\ op' = o
  /\ pdu' = p
  /\ retry_attempts' = n
  /\ expect' = e
  /\ \E k \in 0..MaxFail :
       /\ (rawImpl = "inherited") => (k = MaxFail)
       /\ k0' = k
       /\ failsLeft' = k
  /\ curPdu' = p
  /\ budget' = n
  /\ log' = <<>>
  /\ resps' = <<>>
  /\ rv' = <<>>
  /\ result' = NoResult
  /\ conCalls' = <<>>
  /\ waited' = "none"
  /\ UNCHANGED <<rawImpl, handles, prev>>

call_send_apdu_failsafe ==
  \E p \in Pdus, n \in 0..MaxRetry : Begin("send_apdu_failsafe", p, n, <<>>)

call_send_apdu ==
  \E p \in Pdus, n \in 0..MaxRetry : Begin("send_apdu", p, n, <<>>)

call_send_apdu_checksw ==
  \E p \in Pdus, e \in Patterns :
    Begin("send_apdu_checksw", p, send_apdu_default_retry, e)

\* (variant) send_apdu_failsafe takes a status word other than 9000 for a
\* failure and spends a retry on it
send_apdu_failsafe_return_ChecksSw ==
  /\ pc = "failsafe"
  /\ rawImpl = "overridden"
  /\ failsLeft = 0
  /\ \E d \in Datas, s \in StatusWords :
       /\ log' = Append(log, Sent(curPdu, budget, <<d, s>>, ""))
       /\ IF s # <<"9", "0", "0", "0">> /\ budget > 0
            THEN /\ budget' = budget - 1
                 /\ UNCHANGED <<pc, resps, result>>
            ELSE /\ budget' = budget
                 /\ resps' = Append(resps, <<d, s>>)
                 /\ pc' = "done"
                 /\ result' = Returned(<<d, s>>)
  /\ failsLeft' \in 0..MaxFail
  /\ UNCHANGED <<rawImpl, op, pdu, retry_attempts, expect, k0, curPdu, rv>>
  /\ UNCHANGED conVars

\* send_apdu_failsafe, lines 72-73: send_apdu_raw returned (data, sw)
send_apdu_failsafe_return ==
  /\ pc = "failsafe"
  /\ rawImpl = "overridden"
  /\ failsLeft = 0
  /\ \E d \in Datas, s \in StatusWords :
       /\ log' = Append(log, Sent(curPdu, budget, <<d, s>>, ""))
       /\ resps' = Append(resps, <<d, s>>)
       /\ IF op = "send_apdu_failsafe"
            THEN /\ pc' = "done"
                 /\ result' = Returned(<<d, s>>)
                 /\ rv' = rv
            ELSE IF ReturnSite(Len(resps) + 1) = "send_apdu"
                   THEN /\ pc' = "send_apdu"
                        /\ result' = result
                        /\ rv' = rv
                   ELSE \* line 98: send_apdu returns the continuation's pair
                        /\ rv' = <<d, s>>
                        /\ IF op = "send_apdu"
                             THEN pc' = "done" /\ result' = Returned(<<d, s>>)
                             ELSE pc' = "checksw" /\ result' = result
  /\ failsLeft' \in 0..MaxFail
  /\ UNCHANGED <<rawImpl, op, pdu, retry_attempts, expect, k0, curPdu, budget>>
  /\ UNCHANGED conVars

\* (variant) send_apdu catches the failure of the continuation and returns
\* the pair it already has
send_apdu_failsafe_except_FallsBack ==
  /\ pc = "failsafe"
  /\ \/ rawImpl = "inherited"
     \/ rawImpl = "overridden" /\ failsLeft > 0
  /\ \E kind \in (IF rawImpl = "inherited" THEN {"RecursionError"} ELSE ChannelErrors) :
       LET e1 == Exc(kind, Len(log) + 1, <<>>)
       IN  /\ log' = Append(log, Sent(curPdu, budget, <<>>, kind))
           /\ IF RetryAllowed(kind, budget)
                THEN /\ budget' = budget - 1
                     /\ UNCHANGED <<pc, result, rv>>
                ELSE /\ budget' = budget
                     /\ IF Len(resps) = 0 \/ op = "send_apdu_failsafe"
                          THEN /\ pc' = "done"
                               /\ result' = Raised(Reraise(e1))
                               /\ rv' = rv
                          ELSE /\ rv' = resps[1]
                               /\ IF op = "send_apdu"
                                    THEN pc' = "done" /\ result' = Returned(resps[1])
                                    ELSE pc' = "checksw" /\ result' = result
  /\ failsLeft' = IF rawImpl = "inherited" THEN failsLeft ELSE failsLeft - 1
  /\ UNCHANGED <<rawImpl, op, pdu, retry_attempts, expect, k0, curPdu, resps>>
  /\ UNCHANGED conVars

\* send_apdu_failsafe, lines 74-78: send_apdu_raw raised.  An inherited
\* send_apdu_raw (line 61) calls itself until the interpreter raises
\* RecursionError.  Neither send_apdu nor send_apdu_checksw catches anything,
\* so an exception that leaves send_apdu_failsafe leaves the public method.
send_apdu_failsafe_except ==
  /\ pc = "failsafe"
  /\ \/ rawImpl = "inherited"
     \/ rawImpl = "overridden" /\ failsLeft > 0
  /\ \E kind \in (IF rawImpl = "inherited" THEN {"RecursionError"} ELSE ChannelErrors) :
       LET e1 == Exc(kind, Len(log) + 1, <<>>)
       IN  /\ log' = Append(log, Sent(curPdu, budget, <<>>, kind))
           /\ IF RetryAllowed(kind, budget)
                THEN /\ budget' = budget - 1
                     /\ curPdu' = RetryPdu(curPdu, pdu)
                     /\ pc' = pc
                     /\ result' = result
                ELSE /\ budget' = budget
                     /\ curPdu' = curPdu
                     /\ pc' = "done"
                     /\ result' = Raised(Reraise(e1))
  /\ failsLeft' = IF rawImpl = "inherited" THEN failsLeft ELSE failsLeft - 1
  /\ UNCHANGED <<rawImpl, op, pdu, retry_attempts, expect, k0, resps, rv>>
  /\ UNCHANGED conVars

\* send_apdu, lines 95-98, with the first (data, sw) in hand
send_apdu ==
  /\ pc = "send_apdu"
  /\ LET first == resps[Len(resps)]   \* the current data, sw
     IN  IF NeedsGetResponse(first[2])
           THEN /\ curPdu' = GetResponsePdu(pdu, first[2])
                /\ budget' = GetResponseRetry(retry_attempts, budget)
                /\ pc' = "failsafe"
                /\ rv' = rv
                /\ result' = result
           ELSE /\ rv' = first
                /\ UNCHANGED <<curPdu, budget>>
                /\ IF op = "send_apdu"
                     THEN pc' = "done" /\ result' = Returned(first)
                     ELSE pc' = "checksw" /\ result' = result
  /\ UNCHANGED <<rawImpl, op, pdu, retry_attempts, expect, k0, failsLeft, log, resps>>
  /\ UNCHANGED conVars

\* (variant) a status mismatch is taken for a transport fault and the command
\* sent once more before the error is raised
send_apdu_checksw_RetriesMismatch ==
  /\ pc = "checksw"
  /\ IF CheckswPasses(rv, expect)
       THEN pc' = "done" /\ result' = Returned(rv) /\ curPdu' = curPdu
       ELSE IF Len(log) < 3
              THEN pc' = "failsafe" /\ result' = result /\ curPdu' = pdu
              ELSE /\ pc' = "done"
                   /\ result' = Raised(SwMatchError(rv[2], expect))
                   /\ curPdu' = curPdu
  /\ UNCHANGED <<rawImpl, op, pdu, retry_attempts, expect, k0, failsLeft,
                 budget, log, resps, rv>>
  /\ UNCHANGED conVars

\* send_apdu_checksw, lines 113-115
send_apdu_checksw ==
  /\ pc = "checksw"
  /\ pc' = "done"
  /\ result' = IF CheckswPasses(rv, expect)
                 THEN Returned(rv)
                 ELSE Raised(SwMatchError(rv[2], expect))
  /\ UNCHANGED <<rawImpl, op, pdu, retry_attempts, expect, k0, failsLeft, curPdu,
                 budget, log, resps, rv>>
  /\ UNCHANGED conVars

----------------------------------------------------------------------------
(* PcscSimLink *)

\* how self._con.connect() ends (pyscard)
ConnectOutcomes == {"ok", "CardConnectionException", "NoCardException"}

\* how cr.waitforcard() ends (pyscard); it can time out only with a timeout
WaitOutcomes(timeout) == IF timeout = "None" THEN {"card"} ELSE {"card", "timeout"}

\* The state of a PcscSimLink method as it runs: the handles self._con holds,
\* the calls made on self._con, the exception that ended the method ("" for
\* none) and the value returned (<<>> for None).
Running(h) == [handles |-> h, calls |-> <<>>, exc |-> "", ret |-> <<>>]

\* self._con.disconnect(): releases what the connection holds
con_disconnect(st) ==
  [st EXCEPT !.handles = 0,
             !.calls = Append(st.calls, [call |-> "disconnect", exc |-> ""])]

\* self._con.connect(protocol): on success the connection holds a new card
\* handle, beside any it was not made to release
con_connect(st, outcome) ==
  [st EXCEPT !.handles = IF outcome = "ok" THEN st.handles + 1 ELSE st.handles,
             !.calls = Append(st.calls,
                              [call |-> "connect",
                               exc |-> IF outcome = "ok" THEN "" ELSE outcome]),
             !.exc = IF outcome = "ok" THEN "" ELSE outcome]

\* PcscSimLink.disconnect, lines 74-75
disconnect(st) == con_disconnect(st)

\* (variant) connect without the disconnect of line 62
connect_NoDisconnect(st, outcome) ==
  LET c == con_connect(st, outcome)
  IN  [c EXCEPT !.exc = CASE c.exc = "CardConnectionException" -> "ProtocolError"
                          [] c.exc = "NoCardException" -> "NoCardError"
                          [] OTHER -> c.exc]

\* PcscSimLink.connect, lines 58-69
connect(st, outcome) ==
  LET c == con_connect(disconnect(st), outcome)
  IN  [c EXCEPT !.exc = CASE c.exc = "CardConnectionException" -> "ProtocolError"
                          [] c.exc = "NoCardException" -> "NoCardError"
                          [] OTHER -> c.exc]

\* PcscSimLink.reset_card, lines 77-80
reset_card(st, outcome) ==
  LET c == connect(disconnect(st), outcome)
  IN  IF c.exc = "" THEN [c EXCEPT !.ret = <<1>>] ELSE c

\* (variant) a timeout is logged and the connect attempted all the same
wait_for_card_ConnectsAnyway(st, w, outcome) == connect(st, outcome)

\* PcscSimLink.wait_for_card, lines 50-56
wait_for_card(st, w, outcome) ==
  IF w = "timeout" THEN [st EXCEPT !.exc = "NoCardError"] ELSE connect(st, outcome)

\* PcscSimLink._send_apdu_raw, lines 82-91: the pair made of what
\* self._con.transmit(h2i(pdu)) returned
pcsc_send_apdu_raw(data, sw1, sw2) == <<i2h(data), i2h(<<sw1, sw2>>)>>

\* A PcscSimLink method that runs to its end in one go: st is how it ended.
Ran(o, st, w) ==
  /\ pc = "idle"
  /\ rawImpl = "inherited"
  /\ pc' = "done"
  /\ op' = o
  /\ handles' = st.handles
  /\ conCalls' = st.calls
  /\ waited' = w
  /\ result' = IF st.exc = "" THEN ReturnedValue(st.ret) ELSE Raised(Exc(st.exc, 0, <<>>))
  /\ UNCHANGED <<rawImpl, pdu, retry_attempts, expect, k0, failsLeft, curPdu,
                 budget, log, resps, rv, prev>>

call_connect ==
  \E outcome \in ConnectOutcomes :
    Ran("connect", connect(Running(handles), outcome), "none")

call_disconnect ==
  Ran("disconnect", disconnect(Running(handles)), "none")

call_reset_card ==
  \E outcome \in ConnectOutcomes :
    Ran("reset_card", reset_card(Running(handles), outcome), "none")

call_wait_for_card ==
  \E timeout \in {"None", "given"} :
    \E w \in WaitOutcomes(timeout), outcome \in ConnectOutcomes :
      Ran("wait_for_card", wait_for_card(Running(handles), w, outcome), w)

\* The public method has returned or raised; its frame and locals are gone
\* and the link, which keeps no state of the call, takes the next one.
call_ends ==
  /\ pc = "done"
  /\ pc' = "idle"
  /\ op' = "none"
  /\ pdu' = <<>>
  /\ retry_attempts' = 0
  /\ expect' = <<>>
  /\ k0' = 0
  /\ failsLeft' = 0
  /\ curPdu' = <<>>
  /\ budget' = 0
  /\ log' = <<>>
  /\ resps' = <<>>
  /\ rv' = <<>>
  /\ result' = NoResult
  /\ conCalls' = <<>>
  /\ waited' = "none"
  /\ prev' = IF rawImpl = "inherited" THEN [op |-> op, tag |-> result.tag] ELSE prev
  /\ UNCHANGED <<rawImpl, handles>>

Next ==
  \/ call_send_apdu_failsafe
  \/ call_send_apdu
  \/ call_send_apdu_checksw
  \/ send_apdu_failsafe_return
  \/ send_apdu_failsafe_except
  \/ send_apdu
  \/ send_apdu_checksw
  \/ call_ends
  \/ call_connect
  \/ call_disconnect
  \/ call_reset_card
  \/ call_wait_for_card

Spec == Init /\ [][Next]_vars

----------------------------------------------------------------------------
(* Properties *)

Done == pc = "done"

LastSent == log[Len(log)]

\* the exception the i-th raw transmission raised
RaisedBy(i) == Exc(log[i].exc, i, <<>>)

\* C1: send_apdu_failsafe(pdu, N) on a channel that fails on its first k
\* calls and then succeeds returns a result if and only if k <= N; when it
\* returns it made exactly k+1 raw transmissions, and when k > N it made
\* exactly N+1 before the failure reached the caller.
C1_FailsafeAttempts ==
  (Done /\ op = "send_apdu_failsafe") =>
    /\ result.tag \in {"return", "raise"}
    /\ (result.tag = "return") <=> (k0 <= retry_attempts)
    /\ (result.tag = "return") => (Len(log) = k0 + 1)
    /\ (k0 > retry_attempts) => (result.tag = "raise" /\ Len(log) = retry_attempts + 1)

C1_Witness ==
  /\ Done
  /\ op = "send_apdu_failsafe"
  /\ k0 = 2
  /\ retry_attempts = 2
  /\ result.tag = "return"
  /\ Len(log) = 3

\* C2: when a raw transmission returns a (data, sw) pair, send_apdu_failsafe
\* returns exactly that pair and transmits nothing more, whatever sw is: a
\* card-reported error status is a success here and costs no retry.
C2_AnyStatusIsSuccess ==
  (op = "send_apdu_failsafe") =>
    \A i \in 1..Len(log) :
      log[i].ok =>
        /\ i = Len(log)
        /\ Done
        /\ result = Returned(log[i].resp)
        /\ budget = log[i].left

C2_Witness ==
  /\ Done
  /\ op = "send_apdu_failsafe"
  /\ retry_attempts = 2
  /\ Len(log) = 1
  /\ result.tag = "return"
  /\ result.sw = <<"6", "A", "8", "2">>

\* C3: a raw transmission that fails while the remaining budget is 0 ends the
\* call with that very exception: not swallowed, not replaced by a returned
\* value, not turned into an exception of another class.
C3_FailureSurfacesUnchanged ==
  (Len(log) > 0 /\ ~LastSent.ok /\ LastSent.left = 0) =>
    /\ Done
    /\ result = Raised(RaisedBy(Len(log)))
    /\ result.exc = LastSent.exc

C3_Witness ==
  /\ Done
  /\ op = "send_apdu_failsafe"
  /\ retry_attempts = 2
  /\ Len(log) = 3
  /\ result.tag = "raise"
  /\ result.exc = "NoCardError"
  /\ result.id = 3

\* the raw transmissions made after send_apdu_raw first returned a pair: the
\* transmissions of the continuation command
ContinuationSends == {i \in 1..Len(log) : \E j \in 1..(i - 1) : log[j].ok}

ViaSendApdu == op \in {"send_apdu", "send_apdu_checksw"}

\* C4: whenever send_apdu chains, the continuation it transmits is exactly
\* five bytes: the class byte of the original command, C0 00 00, then SW2 of
\* the first response (A0A40000023F00 answered 9F 05 gives A0 C0 00 00 05),
\* and the pair returned is the continuation's, not the first response's.
C4_ContinuationCommand ==
  ViaSendApdu =>
    /\ \A i \in ContinuationSends :
         /\ Len(log[i].pdu) = 10
         /\ h2i(log[i].pdu) = <<h2i(pdu)[1], 192, 0, 0, h2i(resps[1][2])[2]>>
         /\ (h2i(pdu)[1] = 160 /\ h2i(resps[1][2]) = <<159, 5>>) =>
              h2i(log[i].pdu) = h2i(<<"A", "0", "C", "0", "0", "0", "0", "0", "0", "5">>)
    /\ (ContinuationSends # {} /\ LastSent.ok) =>
         /\ pc \in {"checksw", "done"}
         /\ rv = LastSent.resp
         /\ (op = "send_apdu") => (result = Returned(LastSent.resp))

C4_Witness ==
  /\ Done
  /\ op = "send_apdu"
  /\ pdu = <<"A", "0", "A", "4", "0", "0", "0", "0", "0", "2", "3", "F", "0", "0">>
  /\ Len(resps) = 2
  /\ resps[1] = << <<>>, <<"9", "f", "0", "5">> >>
  /\ LastSent.pdu = <<"A", "0", "c", "0", "0", "0", "0", "0", "0", "5">>
  /\ result.tag = "return"
  /\ result.data = <<"0", "7", "4", "F", "4", "E", "F", "F", "F", "F">>
  /\ result.sw = <<"9", "0", "0", "0">>

\* C5: when SW1 of the first response is neither 9F nor 61, send_apdu returns
\* the first response's pair exactly and transmits nothing beyond what it took
\* to get that response.
C5_NoChaseOnOtherStatus ==
  (ViaSendApdu /\ Len(resps) >= 1 /\ h2i(resps[1][2])[1] \notin {159, 97}) =>
    /\ pc \in {"send_apdu", "checksw", "done"}
    /\ Len(resps) = 1
    /\ ContinuationSends = {}
    /\ LastSent.ok /\ LastSent.resp = resps[1]
    /\ \A i \in 1..Len(log) : log[i].pdu = pdu
    /\ (pc \in {"checksw", "done"}) => (rv = resps[1])
    /\ (Done /\ op = "send_apdu") => (result = Returned(resps[1]))

C5_Witness ==
  /\ Done
  /\ op = "send_apdu"
  /\ retry_attempts = 1
  /\ k0 = 1
  /\ Len(log) = 2
  /\ result.tag = "return"
  /\ result.sw = <<"9", "0", "0", "0">>

\* C6: chaining is single-shot: a send_apdu call issues at most one
\* continuation command; when the continuation's own response again has
\* SW1 = 61 or 9F it is returned as the final result and no second
\* continuation is sent.
C6_SingleShot ==
  ViaSendApdu =>
    /\ Len(resps) <= 2
    /\ Cardinality({i \in 1..Len(log) : log[i].ok}) <= 2
    /\ \A i, j \in ContinuationSends : log[i].pdu = log[j].pdu
    /\ (Len(resps) = 2) =>
         /\ pc \in {"checksw", "done"}
         /\ LastSent.ok
         /\ rv = resps[2]
         /\ (op = "send_apdu") => (result = Returned(resps[2]))

C6_Witness ==
  /\ Done
  /\ op = "send_apdu"
  /\ Len(resps) = 2
  /\ Len(log) = 2
  /\ result.tag = "return"
  /\ result.sw = <<"6", "1", "1", "2">>

\* pattern position by position: the wildcard, or the observed digit in
\* either letter case
DigitwiseMatch(observed, pattern) ==
  \A i \in 1..4 :
    \/ pattern[i] = "?"
    \/ lower(<<pattern[i]>>) = lower(<<observed[i]>>)

\* send_apdu_checksw got its rv and has ended
CheckswDone == Done /\ op = "send_apdu_checksw" /\ rv # <<>>

\* C7 as stated: send_apdu_checksw returns the pair when the final status
\* matches the pattern and otherwise raises the status-mismatch error with the
\* observed status word and the lower-cased pattern; for final status 6A82 and
\* expected 9000 the error carries ("6a82", "9000").
C7_Original ==
  CheckswDone =>
    IF DigitwiseMatch(rv[2], expect)
      THEN result = Returned(rv)
      ELSE /\ result.tag = "raise"
           /\ result.exc = "SwMatchError"
           /\ lower(result.args[1]) = lower(rv[2])
           /\ result.args[2] = lower(expect)
           /\ (rv[2] = <<"6", "A", "8", "2">> /\ expect = <<"9", "0", "0", "0">>) =>
                (result.args = << <<"6", "a", "8", "2">>, <<"9", "0", "0", "0">> >>)

\* C7 (amended): send_apdu_checksw returns the pair when the final status
\* matches the pattern and otherwise raises the status-mismatch error with the
\* observed status word exactly as the raw channel returned it, letter case
\* kept, and the pattern lower-cased; for a final status string "6A82" and
\* expected 9000 the error carries ("6A82", "9000").
C7_MismatchCarriesObserved ==
  CheckswDone =>
    IF DigitwiseMatch(rv[2], expect)
      THEN result = Returned(rv)
      ELSE /\ result.tag = "raise"
           /\ result.exc = "SwMatchError"
           /\ result.args = <<rv[2], lower(expect)>>

C7_Witness ==
  /\ CheckswDone
  /\ rv[2] = <<"6", "A", "8", "2">>
  /\ expect = <<"9", "0", "0", "0">>
  /\ result.exc = "SwMatchError"
  /\ result.args = << <<"6", "A", "8", "2">>, <<"9", "0", "0", "0">> >>

\* C8: send_apdu_checksw runs with retry budget 0: a raw transmission that
\* fails, of the command or of the continuation, is not re-attempted and its
\* failure ends the call.
C8_CheckswNoRetry ==
  (op = "send_apdu_checksw") =>
    \A i \in 1..Len(log) :
      /\ log[i].left = 0
      /\ ~log[i].ok =>
           /\ i = Len(log)
           /\ Done
           /\ result = Raised(RaisedBy(i))

C8_Witness ==
  /\ Done
  /\ op = "send_apdu_checksw"
  /\ Len(log) = 2
  /\ log[1].ok
  /\ ~log[2].ok
  /\ log[2].pdu # pdu
  /\ result.tag = "raise"
  /\ result.exc = "ProtocolError"

AbsenceFaults == {"NoCardError", "ReaderError"}

\* C9 as stated: a raw transmission that fails with NoCardError or ReaderError
\* is surfaced at once, after that single attempt, even when retry budget
\* remains.
C9_Original ==
  (Len(log) > 0 /\ LastSent.exc \in AbsenceFaults) =>
    /\ Done
    /\ result = Raised(RaisedBy(Len(log)))

\* C9 (amended): an absence fault is retried like any other failure: when the
\* raw transmission fails with NoCardError or ReaderError while the remaining
\* retry budget is greater than 0, send_apdu_failsafe sends the same command
\* again with the budget reduced by one; the fault is surfaced, unchanged,
\* only when it occurs with remaining budget 0.
C9_AbsenceFaultsRetried ==
  \A i \in 1..Len(log) :
    (log[i].exc \in AbsenceFaults) =>
      IF log[i].left > 0
        THEN IF i = Len(log)
               THEN /\ pc = "failsafe"
                    /\ result = NoResult
                    /\ curPdu = log[i].pdu
                    /\ budget = log[i].left - 1
               ELSE /\ log[i + 1].pdu = log[i].pdu
                    /\ log[i + 1].left = log[i].left - 1
        ELSE /\ i = Len(log)
             /\ Done
             /\ result = Raised(RaisedBy(i))

C9_Witness ==
  /\ Done
  /\ op = "send_apdu_failsafe"
  /\ Len(log) = 3
  /\ log[1].exc = "NoCardError"
  /\ log[2].exc = "ReaderError"
  /\ log[3].ok
  /\ result.tag = "return"

\* C10 as stated: the match send_apdu_checksw uses is per hex digit and
\* ignores letter case: it succeeds exactly when every pattern position is the
\* wildcard or the observed digit at that position; (9000, 9000) and
\* (9000, 90??) match, (9001, 9000) and (9100, 9?00) do not.
C10_Original ==
  CheckswDone =>
    LET Is(o, e) == rv[2] = o /\ expect = e
    IN  /\ (result.tag = "return") <=> DigitwiseMatch(rv[2], expect)
        /\ Is(<<"9", "0", "0", "0">>, <<"9", "0", "0", "0">>) => (result.tag = "return")
        /\ Is(<<"9", "0", "0", "0">>, <<"9", "0", "?", "?">>) => (result.tag = "return")
        /\ Is(<<"9", "0", "0", "1">>, <<"9", "0", "0", "0">>) => (result.tag = "raise")
        /\ Is(<<"9", "1", "0", "0">>, <<"9", "?", "0", "0">>) => (result.tag = "raise")

\* C10 (amended): the match send_apdu_checksw uses is per hex digit and
\* ignores letter case: it succeeds exactly when every pattern position is the
\* wildcard or the observed digit at that position; (9000, 9000),
\* (9000, 90??) and (9100, 9?00) match, (9001, 9000) does not.
C10_MatchPerDigit ==
  CheckswDone =>
    LET Is(o, e) == rv[2] = o /\ expect = e
    IN  /\ (result.tag = "return") <=> DigitwiseMatch(rv[2], expect)
        /\ (result.tag = "raise" /\ result.exc = "SwMatchError") <=>
             ~DigitwiseMatch(rv[2], expect)
        /\ Is(<<"9", "0", "0", "0">>, <<"9", "0", "0", "0">>) => (result.tag = "return")
        /\ Is(<<"9", "0", "0", "0">>, <<"9", "0", "?", "?">>) => (result.tag = "return")
        /\ Is(<<"9", "1", "0", "0">>, <<"9", "?", "0", "0">>) => (result.tag = "return")
        /\ Is(<<"9", "0", "0", "1">>, <<"9", "0", "0", "0">>) => (result.tag = "raise")

C10_Witness ==
  /\ CheckswDone
  /\ rv[2] = <<"9", "1", "0", "0">>
  /\ expect = <<"9", "?", "0", "0">>
  /\ result.tag = "return"
  /\ result.sw = <<"9", "1", "0", "0">>

SendOps == {"send_apdu_failsafe", "send_apdu", "send_apdu_checksw"}

\* the calls of self._con.transmit this call made
Transmits == {j \in 1..Len(conCalls) : conCalls[j].call = "transmit"}

\* C11: reset_card performs disconnect followed by connect and returns 1
\* exactly when both succeed; after it returns the channel is connected, so
\* that the transmit issued next on the PC/SC link succeeds and returns a
\* (data, sw) pair.
C11_ResetThenTransmit ==
  /\ (Done /\ op = "reset_card") =>
       /\ Len(conCalls) >= 2
       /\ conCalls[1].call = "disconnect"
       /\ conCalls[Len(conCalls)].call = "connect"
       /\ (result = ReturnedValue(<<1>>)) <=> (result.tag = "return")
       /\ (result.tag = "return") => (handles = 1)
  /\ (/\ rawImpl = "inherited"
      /\ prev = [op |-> "reset_card", tag |-> "return"]
      /\ op \in SendOps
      /\ Len(log) >= 1) =>
       /\ log[1].ok
       /\ Len(log[1].resp) = 2

\* C12: a transmission through the PC/SC link's send_apdu_raw, as
\* send_apdu_failsafe calls it once per attempt, reaches self._con.transmit
\* exactly once, terminates and yields the (data, sw) pair of that transmit,
\* sw being 4 hex digits.
C12_RawSendReachesTransmit ==
  (rawImpl = "inherited" /\ op \in SendOps) =>
    /\ Cardinality(Transmits) = Len(log)
    /\ \A i \in 1..Len(log) :
         /\ log[i].ok
         /\ Len(log[i].resp) = 2
         /\ Len(log[i].resp[2]) = 4

\* C13: the continuation is fetched whenever SW1 of the first response is 9F
\* or 61, in whichever letter case the status word's hex digits come: "9F05"
\* triggers it just as "9f05" does.
C13_ChaseAnyLetterCase ==
  (/\ ViaSendApdu
   /\ pc \in {"checksw", "done"}
   /\ Len(resps) >= 1
   /\ h2i(resps[1][2])[1] \in {159, 97}) =>
    /\ ContinuationSends # {}
    /\ \A i \in ContinuationSends : log[i].pdu = GetResponsePdu(pdu, lower(resps[1][2]))

\* the first transmission of the continuation command
FirstContinuationSend ==
  CHOOSE i \in ContinuationSends : \A j \in ContinuationSends : i <= j

\* C14: every raw transmission of one send_apdu_failsafe call carries the
\* command it was called with: retries of the original command resend the
\* original, and within send_apdu the retries of the continuation resend the
\* continuation command, never the original.
C14_RetriesResendSameCommand ==
  (op \in SendOps) =>
    /\ \A i \in (1..Len(log)) \ ContinuationSends : log[i].pdu = pdu
    /\ \A i \in ContinuationSends :
         /\ log[i].pdu # pdu
         /\ log[i].pdu = log[FirstContinuationSend].pdu
    /\ (op = "send_apdu_failsafe") => (ContinuationSends = {})
    /\ (pc = "failsafe" /\ Len(resps) = 0) => (curPdu = pdu)
    /\ (pc = "failsafe" /\ ContinuationSends # {}) =>
         (curPdu = log[FirstContinuationSend].pdu)

C14_Witness ==
  /\ Done
  /\ op = "send_apdu"
  /\ Len(log) = 4
  /\ ~log[1].ok /\ log[1].pdu = pdu
  /\ log[2].ok /\ log[2].pdu = pdu
  /\ ~log[3].ok /\ log[3].pdu # pdu
  /\ log[4].ok /\ log[4].pdu = log[3].pdu
  /\ result.tag = "return"

\* C15: in send_apdu(pdu, N) the two sends have independent retry budgets: the
\* continuation is sent with the full budget N however many retries the
\* original command consumed, so it tolerates up to N failures even after the
\* original used N retries, and the call makes at most 2*(N+1) raw
\* transmissions.
C15_IndependentBudgets ==
  ViaSendApdu =>
    /\ Len(log) <= 2 * (retry_attempts + 1)
    /\ (ContinuationSends # {}) =>
         /\ log[FirstContinuationSend].left = retry_attempts
         /\ Cardinality(ContinuationSends) <= retry_attempts + 1
         /\ (Done /\ result.tag = "raise" /\ result.exc # "SwMatchError") =>
              (Cardinality(ContinuationSends) = retry_attempts + 1)
    /\ (pc = "failsafe" /\ Len(resps) = 1) =>
         (budget = retry_attempts - Cardinality(ContinuationSends))

C15_Witness ==
  /\ Done
  /\ op = "send_apdu"
  /\ retry_attempts = 2
  /\ Len(log) = 6
  /\ log[3].ok
  /\ log[3].left = 0
  /\ log[4].left = 2
  /\ log[6].ok
  /\ result.tag = "return"

\* C16: a status mismatch is never retried: when send_apdu_checksw ends in the
\* status-mismatch error, no raw transmission followed the one that gave the
\* final status word, and the call made exactly one raw transmission when it
\* did not chain and exactly two when it did.
C16_MismatchNotRetried ==
  (Done /\ op = "send_apdu_checksw" /\ result.exc = "SwMatchError") =>
    /\ LastSent.ok
    /\ LastSent.resp = rv
    /\ result.args[1] = LastSent.resp[2]
    /\ \A i \in 1..Len(log) : log[i].ok
    /\ Len(log) = IF ContinuationSends = {} THEN 1 ELSE 2
    /\ (ContinuationSends = {}) <=> ~NeedsGetResponse(log[1].resp[2])

C16_Witness ==
  /\ Done
  /\ op = "send_apdu_checksw"
  /\ result.exc = "SwMatchError"
  /\ Len(log) = 2
  /\ log[1].resp[2] = <<"6", "1", "1", "2">>
  /\ result.args[1] = <<"6", "a", "8", "2">>

\* C17: if the continuation command fails with its retry budget exhausted,
\* send_apdu (and send_apdu_checksw) ends with that failure: the first
\* response's data and 9F/61 status word are never returned as the result.
C17_ContinuationFailureSurfaces ==
  (ViaSendApdu /\ ContinuationSends # {} /\ ~LastSent.ok /\ LastSent.left = 0) =>
    /\ Done
    /\ Len(resps) = 1
    /\ rv = <<>>
    /\ result.tag = "raise"
    /\ result.exc = LastSent.exc
    /\ result.id = Len(log)

C17_Witness ==
  /\ Done
  /\ op = "send_apdu"
  /\ retry_attempts = 1
  /\ Len(log) = 3
  /\ log[1].ok
  /\ log[1].resp[2] = <<"9", "f", "0", "5">>
  /\ ~log[2].ok
  /\ ~log[3].ok
  /\ result.tag = "raise"
  /\ result.exc = "ProtocolError"

\* C18: connect always calls disconnect on the reader connection before the
\* underlying connect, so at most one connection is held at any time; a
\* connection-level failure during connect is surfaced as ProtocolError and an
\* absent card as NoCardError, and in either case the link is left not
\* connected.
C18_ConnectDisconnectsFirst ==
  /\ handles <= 1
  /\ \A j \in 1..Len(conCalls) :
       (conCalls[j].call = "connect") =>
         (j > 1 /\ conCalls[j - 1].call = "disconnect")
  /\ (Done /\ op = "connect") =>
       /\ Len(conCalls) = 2
       /\ LET c == conCalls[2]
          IN  /\ c.call = "connect"
              /\ (c.exc = "") => (result = ReturnedValue(<<>>) /\ handles = 1)
              /\ (c.exc = "CardConnectionException") =>
                   (result = Raised(Exc("ProtocolError", 0, <<>>)) /\ handles = 0)
              /\ (c.exc = "NoCardException") =>
                   (result = Raised(Exc("NoCardError", 0, <<>>)) /\ handles = 0)

C18_Witness ==
  /\ Done
  /\ op = "connect"
  /\ prev = [op |-> "connect", tag |-> "return"]
  /\ conCalls[2].exc = "CardConnectionException"
  /\ result.exc = "ProtocolError"
  /\ handles = 0

\* C19: wait_for_card with a timeout that expires raises NoCardError and makes
\* no connect or disconnect call on the reader connection; when a card is
\* detected it goes on to connect, so that a normal return from wait_for_card
\* implies the link is connected.
C19_WaitForCard ==
  (Done /\ op = "wait_for_card") =>
    /\ (waited = "timeout") =>
         /\ result = Raised(Exc("NoCardError", 0, <<>>))
         /\ conCalls = <<>>
    /\ (waited = "card") =>
         /\ Len(conCalls) = 2
         /\ conCalls[1].call = "disconnect"
         /\ conCalls[2].call = "connect"
    /\ (result.tag = "return") => (waited = "card" /\ handles = 1)

C19_Witness ==
  /\ Done
  /\ op = "wait_for_card"
  /\ waited = "timeout"
  /\ prev = [op |-> "connect", tag |-> "return"]
  /\ handles = 1
  /\ result.exc = "NoCardError"

\* C20: within one send_apdu call the raw transmissions are ordered: every
\* attempt of the original command precedes every attempt of the continuation
\* command, a continuation is transmitted only after an attempt of the
\* original command returned a status word with SW1 = 9f or 61, and a call
\* whose original command never succeeded transmits no continuation.
C20_OriginalBeforeContinuation ==
  ViaSendApdu =>
    /\ \A i \in 1..Len(log) :
         (log[i].pdu # pdu) =>
           /\ \E j \in 1..(i - 1) :
                /\ log[j].pdu = pdu
                /\ log[j].ok
                /\ Slice(log[j].resp[2], 0, 2) \in {<<"9", "f">>, <<"6", "1">>}
           /\ \A m \in i..Len(log) : log[m].pdu # pdu
    /\ (~\E j \in 1..Len(log) : log[j].pdu = pdu /\ log[j].ok) =>
         (\A i \in 1..Len(log) : log[i].pdu = pdu)

C20_Witness ==
  /\ Done
  /\ op = "send_apdu"
  /\ retry_attempts = 2
  /\ Len(log) = 5
  /\ ~log[1].ok /\ ~log[2].ok
  /\ log[3].ok /\ log[3].pdu = pdu /\ log[3].resp[2] = <<"6", "1", "1", "2">>
  /\ ~log[4].ok /\ log[4].pdu # pdu
  /\ log[5].ok /\ log[5].pdu # pdu

====
